---- MODULE Spec2Model ----
(***************************************************************************)
(* Model of the robot warehouse service (package robot): the task model    *)
(* (NewTask / parseCommands), the shared service state behind one RWMutex, *)
(* the callers of EnqueueTask and CancelTask, and the single worker        *)
(* goroutine running Start / ExecuteTask.                                  *)
(*                                                                         *)
(* Every critical section of the code that cannot block inside is one      *)
(* atomic action guarded by the lock being free.  The only section that    *)
(* can block while holding the lock is EnqueueTask's, which performs the   *)
(* channel send under the lock; it is modelled in two steps.               *)
(***************************************************************************)
EXTENDS Integers, Sequences, FiniteSets, TLC

(* ----------------------------- bounds ---------------------------------- *)
\* number of tasks that callers create in one run
MaxTasks == 3
\* capacity of the taskIdQueue channel handed to NewService
QueueCap == 1
\* number of concurrent goroutines calling EnqueueTask
NumCallers == 2
\* number of tasks the single caller of the grid walks creates
GridTasks == 2
\* number of tasks created in the runs that record what every call returns
ObsTasks == 2
\* number of tasks created in the runs that also record the events
EventTasks == 1
MaxRaw == 5

(* ------------------------ program constants ---------------------------- *)
warehouseSize == 10
\* RobotState.X and .Y are uint: 0 - 1 wraps to the largest value, which
\* stands here for 2^64 - 1
MaxUint == 2147483647
UintInc(v) == IF v = MaxUint THEN 0 ELSE v + 1
UintDec(v) == IF v = 0 THEN MaxUint ELSE v - 1

Callers == 1..NumCallers
NoOwner == 0
\* an identifier no task has
UnknownID == 0

(* task states, TaskState in task.go *)
Pending == "Pending"
InProgress == "InProgress"
Aborted == "Aborted"
RequestCancellation == "RequestCancellation"
Canceled == "Canceled"
Completed == "Completed"
Invalid == "Invalid"

(* robot commands, RobotCommand in command.go *)
North == "North"
West == "West"
East == "East"
South == "South"

(* error texts *)
ErrPendingCancelled == "Pending Task cancelled by user"
ErrOutOfBoundaries == "Task is invalid: out of warehouse boundaries, marking as Aborted"
ErrCancelRequested == "Task cancellation requested by user"
ErrExecuting == "Error executing command"
ErrNoCommands == "no commands provided"
ErrInvalidCommand == "invalid command"
ErrInvalidDelay == "invalid delay format"
ErrNotFound == "not found"
ErrCannotCancel == "cannot be cancelled"
ErrNotPending == "is not in Pending state"
ErrTaskInvalid == "is invalid and cannot be processed"

(* ------------------------------ task model ------------------------------ *)
Whitespace == {" ", "\t", "\n"}

\* strings.Split(raw, " "): the pieces between single spaces, empty ones kept
RECURSIVE SplitAcc(_, _, _)
SplitAcc(raw, cur, acc) ==
    IF raw = << >> THEN Append(acc, cur)
    ELSE IF Head(raw) = " " THEN SplitAcc(Tail(raw), << >>, Append(acc, cur))
    ELSE SplitAcc(Tail(raw), Append(cur, Head(raw)), acc)

Split(raw) == SplitAcc(raw, << >>, << >>)

\* strings.TrimSpace(s) != ""
NotBlank(s) == \E i \in 1..Len(s) : s[i] \notin Whitespace

\* removeEmptyStrings without the TrimSpace: only "" is removed
removeEmptyStringsExact(slice) == SelectSeq(slice, LAMBDA s : s # << >>)
removeEmptyStrings(slice) == SelectSeq(slice, NotBlank)

\* the loop of parseCommands over the parts, with its running deltas;
\* the first part that is no command ends the loop with an error
RECURSIVE parseParts(_, _, _, _)
parseParts(parts, commands, deltaX, deltaY) ==
    IF parts = << >>
    THEN [commands |-> commands, deltaX |-> deltaX, deltaY |-> deltaY, err |-> ""]
    ELSE LET p == Head(parts) IN
         IF p = <<"N">> THEN parseParts(Tail(parts), Append(commands, North), deltaX, deltaY + 1)
         ELSE IF p = <<"W">> THEN parseParts(Tail(parts), Append(commands, West), deltaX - 1, deltaY)
         ELSE IF p = <<"E">> THEN parseParts(Tail(parts), Append(commands, East), deltaX + 1, deltaY)
         ELSE IF p = <<"S">> THEN parseParts(Tail(parts), Append(commands, South), deltaX, deltaY - 1)
         ELSE [commands |-> << >>, deltaX |-> deltaX, deltaY |-> deltaY, err |-> ErrInvalidCommand]

parseCommands(raw) ==
    LET parts == removeEmptyStrings(Split(raw)) IN
    IF Len(parts) = 0
    THEN [commands |-> << >>, deltaX |-> 0, deltaY |-> 0, err |-> ErrNoCommands]
    ELSE parseParts(parts, << >>, 0, 0)

\* time.ParseDuration on the delay texts the callers use
DefaultDelay == "1s"
ParseDuration(s) ==
    IF s \in {"1ms", "100ms"} THEN [d |-> s, err |-> ""] ELSE [d |-> "", err |-> ErrInvalidDelay]

\* NewTask with the two displacements stored in each other's field
NewTaskSwapsDeltas(rawCmdSequence, delayStr, id) ==
    LET dr == IF delayStr # "" THEN ParseDuration(delayStr) ELSE [d |-> DefaultDelay, err |-> ""]
        pr == parseCommands(rawCmdSequence)
    IN  IF dr.err # "" THEN [err |-> dr.err]
        ELSE IF pr.err # "" THEN [err |-> pr.err]
        ELSE [err |-> "",
              task |-> [ID |-> id, Commands |-> pr.commands, DelayBetweenCommands |-> dr.d,
                        State |-> Pending, SequenceNum |-> 0, Error |-> "",
                        DeltaX |-> pr.deltaY, DeltaY |-> pr.deltaX]]

\* NewTask: the delay is parsed first, then the commands; id is the fresh uuid
NewTask(rawCmdSequence, delayStr, id) ==
    LET dr == IF delayStr # "" THEN ParseDuration(delayStr) ELSE [d |-> DefaultDelay, err |-> ""]
        pr == parseCommands(rawCmdSequence)
    IN  IF dr.err # "" THEN [err |-> dr.err]
        ELSE IF pr.err # "" THEN [err |-> pr.err]
        ELSE [err |-> "",
              task |-> [ID |-> id, Commands |-> pr.commands, DelayBetweenCommands |-> dr.d,
                        State |-> Pending, SequenceNum |-> 0, Error |-> "",
                        DeltaX |-> pr.deltaX, DeltaY |-> pr.deltaY]]

\* the command strings and delays that callers submit
Cmds(n, c) == [i \in 1..(2 * n - 1) |-> IF i % 2 = 1 THEN c ELSE " "]

\* callers that race each other and the worker: short tasks, and every way
\* NewTask fails
Submissions ==
    { << <<"N">>, "1ms" >>,
      << <<"W", " ", "E">>, "" >>,
      << <<"W">>, "" >>,
      << <<"N", " ", "X">>, "1ms" >> }

\* one caller walking the robot to the far boundary and against it
GridSubmissions ==
    { << Cmds(9, "E"), "" >>,
      << Cmds(10, "E"), "" >>,
      << <<"E", " ", "E", " ", "W", " ", "W">>, "1ms" >>,
      << <<" ">>, "" >> }

\* one caller whose results and events are recorded: short tasks, one that
\* fails at its first step, and every way NewTask fails (no command, blank
\* command, bad token, bad delay)
ObsSubmissions ==
    { << <<"N">>, "1ms" >>,
      << <<"W">>, "" >>,
      << <<"W", " ", "E">>, "" >>,
      << << >>, "" >>,
      << <<" ", "\t">>, "" >>,
      << <<"N", " ", "X">>, "1ms" >>,
      << <<"N">>, "abc" >> }

(* ------------------------------- state ---------------------------------- *)
VARIABLES
    robot,          \* s.state.RobotState
    tasks,          \* s.state.Tasks: task id -> RobotTask
    CurTaskCount,   \* s.state.CurTaskCount
    taskIdQueue,    \* the buffered channel of task ids
    mu,             \* s.mu: NoOwner, or the caller that holds the write lock
    ctxDone,        \* s.ctx has been cancelled
    uuids,          \* number of identifiers uuid.New has handed out
    cpc,            \* per caller: position inside EnqueueTask
    ctask,          \* per caller: the task NewTask returned
    ret,            \* what the call that returned in the last step returned
    wpc,            \* worker: position inside Start / ExecuteTask
    wid,            \* worker: taskId received from the queue
    wtask,          \* worker: the local copy `task` of ExecuteTask
    wi,             \* worker: index of the command the loop is at
    wrobot,         \* worker: local robotState of ExecuteRobotCommand
    startOrder,     \* history: task ids in the order the worker received them
    startPos,       \* history: robot position when the task was checked
    cancelOk,       \* history: <<id, state>> when CancelTask accepted id in state
    observed,       \* what the model records: "returns", "events", "snapshot"
    snap,           \* the ServiceState the last CurrentState call returned
    parseIn,        \* the command string of a direct NewTask call
    parseOut,       \* what that NewTask call returned
    moved,          \* a direct ExecuteRobotCommand call: command, start, error
    goPublish,      \* the publishEvent goroutines started and not yet run
    eventChan       \* s.eventChan: the buffered channel of events

svcVars == <<robot, tasks, CurTaskCount, taskIdQueue, mu, ctxDone>>
callerVars == <<uuids, cpc, ctask>>
workerVars == <<wpc, wid, wtask, wi, wrobot>>
histVars == <<startOrder, startPos, cancelOk>>
clientVars == <<observed, snap, parseIn, parseOut, moved>>
eventVars == <<clientVars, goPublish, eventChan>>
vars == <<svcVars, callerVars, ret, workerVars, histVars, eventVars>>

NoTask == [ID |-> UnknownID]
NoRet == [op |-> "", id |-> UnknownID, err |-> "", state |-> ""]
\* the result of a call, kept in ret by the specifications that record returns
Returns(op, id, err, state) ==
    IF "returns" \in observed
    THEN [op |-> op, id |-> id, err |-> err, state |-> state] ELSE NoRet

\* NewServiceState / NewService
InitService ==
    /\ robot = [X |-> 0, Y |-> 0]
    /\ tasks = << >>
    /\ CurTaskCount = 0
    /\ taskIdQueue = << >>
    /\ mu = NoOwner
    /\ ctxDone = FALSE
    /\ uuids = 0
    /\ cpc = [c \in Callers |-> "idle"]
    /\ ctask = [c \in Callers |-> NoTask]
    /\ ret = NoRet
    /\ wpc = "select"
    /\ wid = UnknownID
    /\ wtask = NoTask
    /\ wi = 0
    /\ wrobot = [X |-> 0, Y |-> 0]
    /\ startOrder = << >>
    /\ startPos = << >>
    /\ cancelOk = {}
    /\ goPublish = << >>
    /\ eventChan = << >>

\* nobody has called CurrentState or NewTask directly
NoSnap == [taken |-> FALSE]
NoOutput == [err |-> "not called"]
NoMove == [cmd |-> "none"]
NoDirectCalls ==
    snap = NoSnap /\ parseIn = << >> /\ parseOut = NoOutput /\ moved = NoMove

Init == InitService /\ observed = {} /\ NoDirectCalls

Exists(id) == id \in DOMAIN tasks

\* m[k] = v, also for a key the map does not have yet
MapSet(m, k, v) == [x \in DOMAIN m \cup {k} |-> IF x = k THEN v ELSE m[x]]

(* --------------------------- state accessors ---------------------------- *)
\* GetTaskState that reports an unknown id as Pending, without an error
GetTaskStateZeroValue(id) ==
    IF Exists(id) THEN [state |-> tasks[id].State, err |-> ""]
    ELSE [state |-> Pending, err |-> ""]
\* GetTaskState: the state, or Invalid with an error when the id is unknown
GetTaskState(id) ==
    IF Exists(id) THEN [state |-> tasks[id].State, err |-> ""]
    ELSE [state |-> Invalid, err |-> ErrNotFound]

\* UpdateTaskState that stores a task without its commands
UpdateTaskStateDropsCommands(id, state) ==
    IF Exists(id) THEN [tasks EXCEPT ![id].State = state, ![id].Commands = << >>] ELSE tasks
\* UpdateTaskState: the registry after the update (unknown ids are ignored)
UpdateTaskState(id, state) ==
    IF Exists(id) THEN [tasks EXCEPT ![id].State = state] ELSE tasks

\* UpdateTaskError: the registry after the update (unknown ids are ignored)
UpdateTaskError(id, errMsg) ==
    IF Exists(id) THEN [tasks EXCEPT ![id].Error = errMsg] ELSE tasks

\* IsTaskValid: destination inside the boundaries, as the code compares it
IsTaskValid(task) ==
    LET destinationX == robot.X + task.DeltaX
        destinationY == robot.Y + task.DeltaY
    IN  ~(destinationX < 0 \/ destinationX >= warehouseSize
          \/ destinationY < 0 \/ destinationY >= warehouseSize)

\* ExecuteRobotCommand up to SetRobotState: the local robotState after the
\* switch, or the error of a move out of the boundaries (uint arithmetic)
MoveNorth(rs) ==
    IF rs.Y >= warehouseSize THEN [err |-> "north", rs |-> rs]
    ELSE [err |-> "", rs |-> [rs EXCEPT !.Y = UintInc(rs.Y)]]
\* MoveSouth without the boundary test
MoveSouthUnchecked(rs) ==
    [err |-> "", rs |-> [rs EXCEPT !.Y = UintDec(rs.Y)]]
MoveSouth(rs) ==
    IF rs.Y = 0 THEN [err |-> "south", rs |-> rs]
    ELSE [err |-> "", rs |-> [rs EXCEPT !.Y = UintDec(rs.Y)]]
\* MoveEast with the boundary test off by one
MoveEastOffByOne(rs) ==
    IF rs.X > warehouseSize THEN [err |-> "east", rs |-> rs]
    ELSE [err |-> "", rs |-> [rs EXCEPT !.X = UintInc(rs.X)]]
MoveEast(rs) ==
    IF rs.X >= warehouseSize THEN [err |-> "east", rs |-> rs]
    ELSE [err |-> "", rs |-> [rs EXCEPT !.X = UintInc(rs.X)]]
MoveWest(rs) ==
    IF rs.X = 0 THEN [err |-> "west", rs |-> rs]
    ELSE [err |-> "", rs |-> [rs EXCEPT !.X = UintDec(rs.X)]]

ExecuteRobotCommand(cmd, rs) ==
    CASE cmd = North -> MoveNorth(rs)
      [] cmd = South -> MoveSouth(rs)
      [] cmd = East -> MoveEast(rs)
      [] cmd = West -> MoveWest(rs)
      [] OTHER -> [err |-> "", rs |-> rs]

\* the error text and state a task has in the registry
ErrorOf(id) == IF Exists(id) THEN tasks[id].Error ELSE ""
StateOf(id) == IF Exists(id) THEN tasks[id].State ELSE Invalid

(* ------------------------------- events --------------------------------- *)
\* capacity of s.eventChan
EventCap == 100

Event(id, state, errorMsg) == [TaskID |-> id, State |-> state, Error |-> errorMsg]

\* `go s.publishEvent(...)`: one more goroutine, which runs whenever the
\* scheduler picks it.  The goroutines touch nothing but eventChan, and a
\* specification that is not about events does not record them.
Go(ev) ==
    /\ goPublish' = IF "events" \in observed THEN Append(goPublish, ev) ELSE goPublish
    /\ UNCHANGED <<clientVars, eventChan>>

\* publishEvent with a plain send, which waits for room in the channel
publishEventBlocking(k) ==
    /\ k \in 1..Len(goPublish)
    /\ Len(eventChan) < EventCap
    /\ eventChan' = Append(eventChan, goPublish[k])
    /\ goPublish' = [j \in 1..(Len(goPublish) - 1) |->
                        IF j < k THEN goPublish[j] ELSE goPublish[j + 1]]
    /\ ret' = NoRet
    /\ UNCHANGED <<svcVars, callerVars, workerVars, histVars, clientVars>>

\* publishEvent: the non-blocking send of one started goroutine
publishEvent(k) ==
    /\ k \in 1..Len(goPublish)
    /\ eventChan' = IF Len(eventChan) < EventCap
                    THEN Append(eventChan, goPublish[k]) ELSE eventChan
    /\ goPublish' = [j \in 1..(Len(goPublish) - 1) |->
                        IF j < k THEN goPublish[j] ELSE goPublish[j + 1]]
    /\ ret' = NoRet
    /\ UNCHANGED <<svcVars, callerVars, workerVars, histVars, clientVars>>

\* a subscriber of GetEventChannel receives the oldest event
ReceiveEvent ==
    /\ eventChan # << >>
    /\ eventChan' = Tail(eventChan)
    /\ ret' = NoRet
    /\ UNCHANGED <<svcVars, callerVars, workerVars, histVars, clientVars, goPublish>>

(* ------------------------------ EnqueueTask ----------------------------- *)
\* EnqueueInvalid counting the submission before NewTask is called
EnqueueInvalidCounted(c, sub) ==
    /\ cpc[c] = "idle"
    /\ NewTask(sub[1], sub[2], uuids + 1).err # ""
    /\ CurTaskCount' = CurTaskCount + 1
    /\ ret' = Returns("EnqueueTask", UnknownID, NewTask(sub[1], sub[2], uuids + 1).err, "")
    /\ UNCHANGED <<robot, tasks, taskIdQueue, mu, ctxDone, callerVars, workerVars,
                   histVars, eventVars>>

\* NewTask fails: EnqueueTask returns the error, nothing else happens
EnqueueInvalid(c, sub) ==
    /\ cpc[c] = "idle"
    /\ NewTask(sub[1], sub[2], uuids + 1).err # ""
    /\ ret' = Returns("EnqueueTask", UnknownID, NewTask(sub[1], sub[2], uuids + 1).err, "")
    /\ UNCHANGED <<svcVars, callerVars, workerVars, histVars, eventVars>>

\* NewTask succeeds: the caller holds a task with a fresh id, not yet locked
EnqueueNewTask(c, sub, maxTasks) ==
    /\ cpc[c] = "idle"
    /\ uuids < maxTasks
    /\ NewTask(sub[1], sub[2], uuids + 1).err = ""
    /\ uuids' = uuids + 1
    /\ ctask' = [ctask EXCEPT ![c] = NewTask(sub[1], sub[2], uuids + 1).task]
    /\ cpc' = [cpc EXCEPT ![c] = "lock"]
    /\ ret' = NoRet
    /\ UNCHANGED <<svcVars, workerVars, histVars, eventVars>>

\* EnqueueRegister without the increment of the count
EnqueueRegisterKeepsCount(c) ==
    /\ cpc[c] = "lock"
    /\ mu = NoOwner
    /\ mu' = c
    /\ CurTaskCount' = CurTaskCount
    /\ ctask' = [ctask EXCEPT ![c].SequenceNum = CurTaskCount]
    /\ tasks' = MapSet(tasks, ctask[c].ID, [ctask[c] EXCEPT !.SequenceNum = CurTaskCount])
    /\ cpc' = [cpc EXCEPT ![c] = "send"]
    /\ ret' = NoRet
    /\ UNCHANGED <<robot, taskIdQueue, ctxDone, uuids, workerVars, histVars, eventVars>>

\* EnqueueRegister assigning the sequence number before the increment
EnqueueRegisterNumbersFirst(c) ==
    /\ cpc[c] = "lock"
    /\ mu = NoOwner
    /\ mu' = c
    /\ CurTaskCount' = CurTaskCount + 1
    /\ ctask' = [ctask EXCEPT ![c].SequenceNum = CurTaskCount]
    /\ tasks' = MapSet(tasks, ctask[c].ID, [ctask[c] EXCEPT !.SequenceNum = CurTaskCount])
    /\ cpc' = [cpc EXCEPT ![c] = "send"]
    /\ ret' = NoRet
    /\ UNCHANGED <<robot, taskIdQueue, ctxDone, uuids, workerVars, histVars, eventVars>>

\* EnqueueRegister numbering the task by its creation, not under the lock
EnqueueRegisterStaleNumber(c) ==
    /\ cpc[c] = "lock"
    /\ mu = NoOwner
    /\ mu' = c
    /\ CurTaskCount' = CurTaskCount + 1
    /\ ctask' = [ctask EXCEPT ![c].SequenceNum = ctask[c].ID]
    /\ tasks' = MapSet(tasks, ctask[c].ID, [ctask[c] EXCEPT !.SequenceNum = ctask[c].ID])
    /\ cpc' = [cpc EXCEPT ![c] = "send"]
    /\ ret' = NoRet
    /\ UNCHANGED <<robot, taskIdQueue, ctxDone, uuids, workerVars, histVars, eventVars>>

\* EnqueueRegister without the store into the registry
EnqueueRegisterNotStored(c) ==
    /\ cpc[c] = "lock"
    /\ mu = NoOwner
    /\ mu' = c
    /\ CurTaskCount' = CurTaskCount + 1
    /\ ctask' = [ctask EXCEPT ![c].SequenceNum = CurTaskCount + 1]
    /\ tasks' = tasks
    /\ cpc' = [cpc EXCEPT ![c] = "send"]
    /\ ret' = NoRet
    /\ UNCHANGED <<robot, taskIdQueue, ctxDone, uuids, workerVars, histVars, eventVars>>

\* s.mu.Lock(); count, sequence number and registration; the lock stays held
EnqueueRegister(c) ==
    /\ cpc[c] = "lock"
    /\ mu = NoOwner
    /\ mu' = c
    /\ CurTaskCount' = CurTaskCount + 1
    /\ ctask' = [ctask EXCEPT ![c].SequenceNum = CurTaskCount + 1]
    /\ tasks' = MapSet(tasks, ctask[c].ID, [ctask[c] EXCEPT !.SequenceNum = CurTaskCount + 1])
    /\ cpc' = [cpc EXCEPT ![c] = "send"]
    /\ ret' = NoRet
    /\ UNCHANGED <<robot, taskIdQueue, ctxDone, uuids, workerVars, histVars, eventVars>>

\* s.taskIdQueue <- task.ID under the lock (blocks while the channel is
\* full), then the creation event, the deferred Unlock and the return
EnqueueSend(c) ==
    /\ cpc[c] = "send"
    /\ mu = c
    /\ Len(taskIdQueue) < QueueCap
    /\ taskIdQueue' = Append(taskIdQueue, ctask[c].ID)
    /\ Go(Event(ctask[c].ID, ctask[c].State, ""))
    /\ mu' = NoOwner
    /\ ret' = Returns("EnqueueTask", ctask[c].ID, "", "")
    /\ cpc' = [cpc EXCEPT ![c] = "idle"]
    /\ ctask' = [ctask EXCEPT ![c] = NoTask]
    /\ UNCHANGED <<robot, tasks, CurTaskCount, ctxDone, uuids, workerVars, histVars>>

(* ------------------------------ CancelTask ------------------------------ *)
\* CancelTask that also cancels a task that is not Pending or InProgress
CancelTaskAnyState(id) ==
    /\ mu = NoOwner
    /\ IF ~Exists(id)
       THEN /\ ret' = Returns("CancelTask", id, ErrNotFound, "")
            /\ UNCHANGED <<tasks, cancelOk, eventVars>>
       ELSE IF tasks[id].State = InProgress
       THEN /\ tasks' = [tasks EXCEPT ![id].State = RequestCancellation]
            /\ Go(Event(id, RequestCancellation, ""))
            /\ ret' = Returns("CancelTask", id, "", "")
            /\ cancelOk' = cancelOk \cup {<<id, InProgress>>}
       ELSE /\ tasks' = [tasks EXCEPT ![id].Error = ErrPendingCancelled,
                                     ![id].State = Canceled]
            /\ Go(Event(id, Canceled, ErrPendingCancelled))
            /\ ret' = Returns("CancelTask", id, "", "")
            /\ cancelOk' = cancelOk \cup {<<id, tasks[id].State>>}
    /\ UNCHANGED <<robot, CurTaskCount, taskIdQueue, mu, ctxDone, callerVars,
                   workerVars, startOrder, startPos>>

\* CancelTask that writes the cancellation reason on a running task too
CancelTaskReasonOnRequest(id) ==
    /\ mu = NoOwner
    /\ IF ~Exists(id)
       THEN /\ ret' = Returns("CancelTask", id, ErrNotFound, "")
            /\ UNCHANGED <<tasks, cancelOk, eventVars>>
       ELSE IF tasks[id].State = InProgress
       THEN /\ tasks' = [tasks EXCEPT ![id].Error = ErrCancelRequested,
                                     ![id].State = RequestCancellation]
            /\ Go(Event(id, RequestCancellation, ErrCancelRequested))
            /\ ret' = Returns("CancelTask", id, "", "")
            /\ cancelOk' = cancelOk \cup {<<id, InProgress>>}
       ELSE IF tasks[id].State = Pending
       THEN /\ tasks' = [tasks EXCEPT ![id].Error = ErrPendingCancelled,
                                     ![id].State = Canceled]
            /\ Go(Event(id, Canceled, ErrPendingCancelled))
            /\ ret' = Returns("CancelTask", id, "", "")
            /\ cancelOk' = cancelOk \cup {<<id, Pending>>}
       ELSE /\ ret' = Returns("CancelTask", id, ErrCannotCancel, tasks[id].State)
            /\ UNCHANGED <<tasks, cancelOk, eventVars>>
    /\ UNCHANGED <<robot, CurTaskCount, taskIdQueue, mu, ctxDone, callerVars,
                   workerVars, startOrder, startPos>>

\* CancelTask that takes a cancellation request back when called again
CancelTaskTakesBack(id) ==
    /\ mu = NoOwner
    /\ IF ~Exists(id)
       THEN /\ ret' = Returns("CancelTask", id, ErrNotFound, "")
            /\ UNCHANGED <<tasks, cancelOk, eventVars>>
       ELSE IF tasks[id].State = InProgress
       THEN /\ tasks' = [tasks EXCEPT ![id].State = RequestCancellation]
            /\ Go(Event(id, RequestCancellation, ""))
            /\ ret' = Returns("CancelTask", id, "", "")
            /\ cancelOk' = cancelOk \cup {<<id, InProgress>>}
       ELSE IF tasks[id].State = Pending
       THEN /\ tasks' = [tasks EXCEPT ![id].Error = ErrPendingCancelled,
                                     ![id].State = Canceled]
            /\ Go(Event(id, Canceled, ErrPendingCancelled))
            /\ ret' = Returns("CancelTask", id, "", "")
            /\ cancelOk' = cancelOk \cup {<<id, Pending>>}
       ELSE IF tasks[id].State = RequestCancellation
       THEN /\ tasks' = [tasks EXCEPT ![id].State = InProgress]
            /\ Go(Event(id, InProgress, ""))
            /\ ret' = Returns("CancelTask", id, "", "")
            /\ UNCHANGED cancelOk
       ELSE /\ ret' = Returns("CancelTask", id, ErrCannotCancel, tasks[id].State)
            /\ UNCHANGED <<tasks, cancelOk, eventVars>>
    /\ UNCHANGED <<robot, CurTaskCount, taskIdQueue, mu, ctxDone, callerVars,
                   workerVars, startOrder, startPos>>

\* the whole of CancelTask, under the write lock
CancelTask(id) ==
    /\ mu = NoOwner
    /\ IF ~Exists(id)
       THEN /\ ret' = Returns("CancelTask", id, ErrNotFound, "")
            /\ UNCHANGED <<tasks, cancelOk, eventVars>>
       ELSE IF tasks[id].State = InProgress
       THEN /\ tasks' = [tasks EXCEPT ![id].State = RequestCancellation]
            /\ Go(Event(id, RequestCancellation, ""))
            /\ ret' = Returns("CancelTask", id, "", "")
            /\ cancelOk' = cancelOk \cup {<<id, InProgress>>}
       ELSE IF tasks[id].State = Pending
       THEN /\ tasks' = [tasks EXCEPT ![id].Error = ErrPendingCancelled,
                                     ![id].State = Canceled]
            /\ Go(Event(id, Canceled, ErrPendingCancelled))
            /\ ret' = Returns("CancelTask", id, "", "")
            /\ cancelOk' = cancelOk \cup {<<id, Pending>>}
       ELSE /\ ret' = Returns("CancelTask", id, ErrCannotCancel, tasks[id].State)
            /\ UNCHANGED <<tasks, cancelOk, eventVars>>
    /\ UNCHANGED <<robot, CurTaskCount, taskIdQueue, mu, ctxDone, callerVars,
                   workerVars, startOrder, startPos>>

(* --------------------- ExecuteRobotCommand, directly -------------------- *)
\* service.SetRobotState(RobotState{X: x, Y: y}) by a client, as
\* TestExecuteRobotCommand places the robot before each command
PlaceRobot(x, y) ==
    /\ mu = NoOwner
    /\ robot' = [X |-> x, Y |-> y]
    /\ moved' = NoMove
    /\ UNCHANGED <<tasks, CurTaskCount, taskIdQueue, mu, ctxDone, callerVars, ret,
                   workerVars, histVars, observed, snap, parseIn, parseOut,
                   goPublish, eventChan>>

\* service.ExecuteRobotCommand(cmd) by a client with no worker running:
\* GetRobotState, the switch, and SetRobotState unless the move is refused;
\* moved keeps the command, the position before the call and the error
MoveRobot(cmd) ==
    /\ mu = NoOwner
    /\ LET r == ExecuteRobotCommand(cmd, robot) IN
        /\ robot' = IF r.err = "" THEN r.rs ELSE robot
        /\ moved' = [cmd |-> cmd, from |-> robot, err |-> r.err]
    /\ UNCHANGED <<tasks, CurTaskCount, taskIdQueue, mu, ctxDone, callerVars, ret,
                   workerVars, histVars, observed, snap, parseIn, parseOut,
                   goPublish, eventChan>>

(* --------------------------- NewTask, directly -------------------------- *)
\* the characters of the command strings given to NewTask directly
RawChars == {"N", "E", "S", "W", "n", "X", " ", "\t", "\n"}
RawInputs == UNION {[1..n -> RawChars] : n \in 0..MaxRaw}

\* a client calls NewTask(parseIn, "") as TestNewTask does and keeps what
\* it returned; the service is not involved
ParseCall ==
    /\ parseOut = NoOutput
    /\ parseOut' = NewTask(parseIn, "", 1)
    /\ UNCHANGED <<svcVars, callerVars, ret, workerVars, histVars, observed,
                   snap, parseIn, moved, goPublish, eventChan>>

(* ----------------------------- GetTaskState ---------------------------- *)
\* a client calls GetTaskState(id), under the read lock
GetTaskStateCall(id) ==
    /\ mu = NoOwner
    /\ ret' = Returns("GetTaskState", id, GetTaskState(id).err, GetTaskState(id).state)
    /\ UNCHANGED <<svcVars, callerVars, workerVars, histVars, eventVars>>

(* ----------------------------- CurrentState ---------------------------- *)
\* CurrentState: under the read lock, return s.state by value. snap keeps
\* the fields copied by the return and, for comparison, the contents the
\* registry had at that instant.
CurrentState ==
    /\ mu = NoOwner
    /\ snap' = [taken |-> TRUE, RobotState |-> robot,
                CurTaskCount |-> CurTaskCount, TasksAtLock |-> tasks]
    /\ ret' = NoRet
    /\ UNCHANGED <<svcVars, callerVars, workerVars, histVars, observed,
                   parseIn, parseOut, moved, goPublish, eventChan>>

\* The value the caller of CurrentState holds. RobotState and CurTaskCount
\* were copied by the return; Tasks is a Go map, so the copy of the struct
\* refers to the registry of the service and reads of it see the registry
\* as it is when they happen.
ReturnedState ==
    [RobotState |-> snap.RobotState, CurTaskCount |-> snap.CurTaskCount,
     Tasks |-> tasks]

(* ------------------------- Start / ExecuteTask -------------------------- *)
\* ExecuteTask returns to the select of Start with the given error
Return(err) ==
    /\ wpc' = "select"
    /\ ret' = Returns("ExecuteTask", wid, err, "")

\* the worker goes on inside ExecuteTask
Goto(pc) ==
    /\ wpc' = pc
    /\ ret' = NoRet

\* WorkerStop that also gives up during the delay before a command
WorkerStopDuringSleep ==
    /\ wpc \in {"select", "sleep"}
    /\ ctxDone
    /\ Goto("stopped")
    /\ UNCHANGED <<svcVars, callerVars, wid, wtask, wi, wrobot, histVars, eventVars>>

\* case <-s.ctx.Done(): the worker goroutine returns
WorkerStop ==
    /\ wpc = "select"
    /\ ctxDone
    /\ Goto("stopped")
    /\ UNCHANGED <<svcVars, callerVars, wid, wtask, wi, wrobot, histVars, eventVars>>

\* case taskId := <-s.taskIdQueue (no lock is needed to receive)
Dequeue ==
    /\ wpc = "select"
    /\ taskIdQueue # << >>
    /\ wid' = Head(taskIdQueue)
    /\ taskIdQueue' = Tail(taskIdQueue)
    /\ startOrder' = Append(startOrder, Head(taskIdQueue))
    /\ Goto("lookup")
    /\ UNCHANGED <<robot, tasks, CurTaskCount, mu, ctxDone, callerVars,
                   wtask, wi, wrobot, startPos, cancelOk, eventVars>>

\* task, exists := s.state.Tasks[taskId] under RLock; a missing task returns
Lookup ==
    /\ wpc = "lookup"
    /\ mu = NoOwner
    /\ IF Exists(wid)
       THEN wtask' = tasks[wid] /\ Goto("check")
       ELSE wtask' = NoTask /\ Return(ErrNotFound)
    /\ UNCHANGED <<svcVars, callerVars, wid, wi, wrobot, histVars, eventVars>>

\* CheckPending that lets every task through
CheckPendingSkipped ==
    /\ wpc = "check"
    /\ Goto("start")
    /\ UNCHANGED <<svcVars, callerVars, wid, wtask, wi, wrobot, histVars, eventVars>>

\* if task.State != Pending, on the local copy
CheckPending ==
    /\ wpc = "check"
    /\ IF wtask.State # Pending THEN Return(ErrNotPending) ELSE Goto("start")
    /\ UNCHANGED <<svcVars, callerVars, wid, wtask, wi, wrobot, histVars, eventVars>>

\* a worker step that is one UpdateTaskState or UpdateTaskError call
WorkerUpdate(newTasks, ev) ==
    /\ mu = NoOwner
    /\ tasks' = newTasks
    /\ IF Exists(ev.TaskID) THEN Go(ev) ELSE UNCHANGED eventVars
    /\ UNCHANGED <<robot, CurTaskCount, taskIdQueue, mu, ctxDone, callerVars,
                   wid, wtask, wi, wrobot, histVars>>

\* s.UpdateTaskState(task.ID, InProgress)
MarkInProgress ==
    /\ wpc = "start"
    /\ WorkerUpdate(UpdateTaskState(wtask.ID, InProgress),
                    Event(wtask.ID, InProgress, ErrorOf(wtask.ID)))
    /\ Goto("validate")

\* if !s.IsTaskValid(task): reads the robot state under RLock
Validate ==
    /\ wpc = "validate"
    /\ mu = NoOwner
    /\ Goto(IF IsTaskValid(wtask) THEN "loop" ELSE "abortState")
    /\ wi' = 1
    /\ startPos' = MapSet(startPos, wtask.ID, robot)
    /\ UNCHANGED <<svcVars, callerVars, wid, wtask, wrobot,
                   startOrder, cancelOk, eventVars>>

\* AbortInvalidState without the update to Aborted
AbortInvalidStateSkipped ==
    /\ wpc = "abortState"
    /\ mu = NoOwner
    /\ Goto("abortError")
    /\ UNCHANGED <<svcVars, callerVars, wid, wtask, wi, wrobot, histVars, eventVars>>

\* s.UpdateTaskState(task.ID, Aborted) of the invalid task
AbortInvalidState ==
    /\ wpc = "abortState"
    /\ WorkerUpdate(UpdateTaskState(wtask.ID, Aborted),
                    Event(wtask.ID, Aborted, ErrorOf(wtask.ID)))
    /\ Goto("abortError")

\* s.UpdateTaskError(task.ID, "Task is invalid: ...") and the return
AbortInvalidError ==
    /\ wpc = "abortError"
    /\ WorkerUpdate(UpdateTaskError(wtask.ID, ErrOutOfBoundaries),
                    Event(wtask.ID, StateOf(wtask.ID), ErrOutOfBoundaries))
    /\ Return(ErrTaskInvalid)

\* LoopCheck testing the copy of the task read at the start, not the registry
LoopCheckStale ==
    /\ wpc = "loop"
    /\ mu = NoOwner
    /\ IF wi > Len(wtask.Commands) THEN Goto("complete")
       ELSE IF GetTaskState(wtask.ID).err # "" THEN Return(ErrNotFound)
       ELSE IF wtask.State = RequestCancellation THEN Goto("cancelError")
       ELSE Goto("sleep")
    /\ UNCHANGED <<svcVars, callerVars, wid, wtask, wi, wrobot, histVars, eventVars>>

\* head of `for _, cmd := range task.Commands` with the GetTaskState check
LoopCheck ==
    /\ wpc = "loop"
    /\ mu = NoOwner
    /\ IF wi > Len(wtask.Commands) THEN Goto("complete")
       ELSE IF GetTaskState(wtask.ID).err # "" THEN Return(ErrNotFound)
       ELSE IF GetTaskState(wtask.ID).state = RequestCancellation THEN Goto("cancelError")
       ELSE Goto("sleep")
    /\ UNCHANGED <<svcVars, callerVars, wid, wtask, wi, wrobot, histVars, eventVars>>

\* s.UpdateTaskError(task.ID, "Task cancellation requested by user")
CancelError ==
    /\ wpc = "cancelError"
    /\ WorkerUpdate(UpdateTaskError(wtask.ID, ErrCancelRequested),
                    Event(wtask.ID, StateOf(wtask.ID), ErrCancelRequested))
    /\ Goto("cancelState")

\* CancelState that returns without the update to Canceled
CancelStateForgotten ==
    /\ wpc = "cancelState"
    /\ WorkerUpdate(tasks, Event(wtask.ID, StateOf(wtask.ID), ErrorOf(wtask.ID)))
    /\ Return("")

\* s.UpdateTaskState(task.ID, Canceled) and return nil
CancelState ==
    /\ wpc = "cancelState"
    /\ WorkerUpdate(UpdateTaskState(wtask.ID, Canceled),
                    Event(wtask.ID, Canceled, ErrorOf(wtask.ID)))
    /\ Return("")

\* time.Sleep(task.DelayBetweenCommands), no lock held
Sleep ==
    /\ wpc = "sleep"
    /\ Goto("execute")
    /\ UNCHANGED <<svcVars, callerVars, wid, wtask, wi, wrobot, histVars, eventVars>>

\* ExecuteRead that takes the first command of the task at every round
ExecuteReadFirstCommand ==
    /\ wpc = "execute"
    /\ mu = NoOwner
    /\ LET r == ExecuteRobotCommand(wtask.Commands[1], robot) IN
        /\ wrobot' = r.rs
        /\ Goto(IF r.err # "" THEN "stepError" ELSE "setRobot")
    /\ UNCHANGED <<svcVars, callerVars, wid, wtask, wi, histVars, eventVars>>

\* ExecuteRobotCommand: GetRobotState and the switch on the command
ExecuteRead ==
    /\ wpc = "execute"
    /\ mu = NoOwner
    /\ LET r == ExecuteRobotCommand(wtask.Commands[wi], robot) IN
        /\ wrobot' = r.rs
        /\ Goto(IF r.err # "" THEN "stepError" ELSE "setRobot")
    /\ UNCHANGED <<svcVars, callerVars, wid, wtask, wi, histVars, eventVars>>

\* SetRobotState after which the loop takes the same command again
SetRobotStateRepeats ==
    /\ wpc = "setRobot"
    /\ mu = NoOwner
    /\ robot' = wrobot
    /\ wi' = wi
    /\ Goto("loop")
    /\ UNCHANGED <<tasks, CurTaskCount, taskIdQueue, mu, ctxDone, callerVars,
                   wid, wtask, wrobot, histVars, eventVars>>

\* ExecuteRobotCommand: s.SetRobotState(robotState); the loop goes on
SetRobotState ==
    /\ wpc = "setRobot"
    /\ mu = NoOwner
    /\ robot' = wrobot
    /\ wi' = wi + 1
    /\ Goto("loop")
    /\ UNCHANGED <<tasks, CurTaskCount, taskIdQueue, mu, ctxDone, callerVars,
                   wid, wtask, wrobot, histVars, eventVars>>

\* s.UpdateTaskError(task.ID, "Error executing command ...")
StepError ==
    /\ wpc = "stepError"
    /\ WorkerUpdate(UpdateTaskError(wtask.ID, ErrExecuting),
                    Event(wtask.ID, StateOf(wtask.ID), ErrExecuting))
    /\ Goto("stepAbort")

\* s.UpdateTaskState(task.ID, Aborted) and the error return
StepAbort ==
    /\ wpc = "stepAbort"
    /\ WorkerUpdate(UpdateTaskState(wtask.ID, Aborted),
                    Event(wtask.ID, Aborted, ErrorOf(wtask.ID)))
    /\ Return(ErrExecuting)

\* s.UpdateTaskState(task.ID, Completed) and return nil
Complete ==
    /\ wpc = "complete"
    /\ WorkerUpdate(UpdateTaskState(wtask.ID, Completed),
                    Event(wtask.ID, Completed, ErrorOf(wtask.ID)))
    /\ Return("")

\* the context handed to NewService is cancelled
Shutdown ==
    /\ ~ctxDone
    /\ ctxDone' = TRUE
    /\ ret' = NoRet
    /\ UNCHANGED <<robot, tasks, CurTaskCount, taskIdQueue, mu, callerVars,
                   workerVars, histVars, eventVars>>

(* --------------------------- specifications ----------------------------- *)
\* the steps of the worker goroutine while its context is not cancelled
Worker ==
    \/ Dequeue \/ Lookup \/ CheckPending \/ MarkInProgress \/ Validate
    \/ AbortInvalidState \/ AbortInvalidError \/ LoopCheck
    \/ CancelError \/ CancelState \/ Sleep \/ ExecuteRead \/ SetRobotState
    \/ StepError \/ StepAbort \/ Complete

\* the ids a caller of CancelTask can name
CancelIDs == DOMAIN tasks \cup {UnknownID}

\* the goroutines that call EnqueueTask with the given submissions
Submit(callers, menu, maxTasks) ==
    \/ \E c \in callers, sub \in menu : EnqueueInvalid(c, sub)
    \/ \E c \in callers, sub \in menu : EnqueueNewTask(c, sub, maxTasks)
    \/ \E c \in callers : EnqueueRegister(c)
    \/ \E c \in callers : EnqueueSend(c)

Cancel == \E id \in CancelIDs : CancelTask(id)

Next == Submit(Callers, Submissions, MaxTasks) \/ Cancel \/ Worker

\* concurrent callers, cancellers and the worker, racing
Spec == Init /\ [][Next]_vars

\* the same, with every goroutine that can run scheduled: the worker, and a
\* caller that is inside EnqueueTask
FairSpec ==
    /\ Init /\ [][Next]_vars
    /\ WF_vars(Worker)
    /\ \A c \in Callers : WF_vars(EnqueueRegister(c)) /\ WF_vars(EnqueueSend(c))

NextGrid == Submit({1}, GridSubmissions, GridTasks) \/ Cancel \/ Worker

\* one caller, cancellers and the worker, with tasks that cross the grid
SpecGrid == Init /\ [][NextGrid]_vars

\* the same, with every goroutine that can run scheduled; with GridTasks
\* tasks the queue never stays full, so no caller waits forever
FairSpecGrid ==
    /\ Init /\ [][NextGrid]_vars
    /\ WF_vars(Worker)
    /\ WF_vars(EnqueueRegister(1)) /\ WF_vars(EnqueueSend(1))

\* the scheduler runs any one of the started publishEvent goroutines
Publish == \E k \in 1..Len(goPublish) : publishEvent(k)

InitObs == InitService /\ observed = {"returns"} /\ NoDirectCalls

NextObs == Submit({1}, ObsSubmissions, ObsTasks) \/ Cancel \/ Worker

\* one caller, cancellers and the worker, with what every call returns
\* recorded
SpecObs == InitObs /\ [][NextObs]_vars

InitEvents == InitService /\ observed = {"returns", "events"} /\ NoDirectCalls

NextEvents ==
    \/ Submit({1}, ObsSubmissions, EventTasks) \/ Cancel \/ Worker
    \/ Publish \/ ReceiveEvent

\* the same with the publishEvent goroutines and an event subscriber, every
\* event recorded
SpecEvents == InitEvents /\ [][NextEvents]_vars

NextMove ==
    \/ \E x \in 0..warehouseSize, y \in 0..warehouseSize : PlaceRobot(x, y)
    \/ \E cmd \in {North, South, East, West} : MoveRobot(cmd)

\* a client that places the robot anywhere in the grid and gives it single
\* commands, with no task running
SpecMove == Init /\ [][NextMove]_vars

InitParse ==
    /\ InitService /\ observed = {}
    /\ snap = NoSnap /\ parseOut = NoOutput /\ moved = NoMove
    /\ parseIn \in RawInputs

\* NewTask applied to every command string of up to MaxRaw characters
SpecParse == InitParse /\ [][ParseCall]_vars

SnapshotTasks == 2
NextSnapshot ==
    Submit({1}, ObsSubmissions, SnapshotTasks) \/ Cancel \/ Worker \/ CurrentState

\* one caller, cancellers, the worker and a client that calls CurrentState
\* and keeps what it returned
SpecSnapshot == Init /\ [][NextSnapshot]_vars

NextStop == NextGrid \/ Shutdown \/ WorkerStop

\* one caller, cancellers and the worker, with the context cancelled at any
\* moment; every goroutine that can run is scheduled (when both cases of the
\* select of Start are ready either may be taken)
FairSpecStop ==
    /\ Init /\ [][NextStop]_vars
    /\ WF_vars(Worker)
    /\ WF_vars(EnqueueRegister(1)) /\ WF_vars(EnqueueSend(1))

NextQuery == NextObs \/ \E id \in CancelIDs : GetTaskStateCall(id)

\* one caller, cancellers, the worker and a client that asks for the state
\* of tasks, with what every call returns recorded
SpecQuery == InitObs /\ [][NextQuery]_vars

NextGridSnapshot == NextGrid \/ CurrentState

\* one caller with tasks that cross the grid, cancellers, the worker and a
\* client that calls CurrentState
SpecGridSnapshot == Init /\ [][NextGridSnapshot]_vars

\* The service after FeedPast earlier tasks, each submitted, cancelled while
\* Pending and then skipped by the worker, their events published in order
\* and no subscriber reading: the channel holds two events per task.
FeedPast == (EventCap - 2) \div 2
PastTask(i) ==
    [ID |-> i, Commands |-> <<North>>, DelayBetweenCommands |-> "1ms",
     State |-> Canceled, SequenceNum |-> i, Error |-> ErrPendingCancelled,
     DeltaX |-> 0, DeltaY |-> 1]
PastEvents ==
    [j \in 1..(2 * FeedPast) |->
        IF j % 2 = 1 THEN Event((j + 1) \div 2, Pending, "")
        ELSE Event(j \div 2, Canceled, ErrPendingCancelled)]

InitFeed ==
    /\ robot = [X |-> 0, Y |-> 0]
    /\ tasks = [i \in 1..FeedPast |-> PastTask(i)]
    /\ CurTaskCount = FeedPast
    /\ taskIdQueue = << >>
    /\ mu = NoOwner
    /\ ctxDone = FALSE
    /\ uuids = FeedPast
    /\ cpc = [c \in Callers |-> "idle"]
    /\ ctask = [c \in Callers |-> NoTask]
    /\ ret = NoRet
    /\ wpc = "select"
    /\ wid = FeedPast
    /\ wtask = PastTask(FeedPast)
    /\ wi = 0
    /\ wrobot = [X |-> 0, Y |-> 0]
    /\ startOrder = [i \in 1..FeedPast |-> i]
    /\ startPos = << >>
    /\ cancelOk = {<<i, Pending>> : i \in 1..FeedPast}
    /\ goPublish = << >>
    /\ eventChan = PastEvents
    /\ observed = {"events"}
    /\ NoDirectCalls

NextFeed ==
    Submit({1}, ObsSubmissions, FeedPast + EventTasks) \/ Cancel \/ Worker \/ Publish

\* one caller, cancellers, the worker and the publishEvent goroutines, with
\* an event channel that is nearly full and that nobody reads
SpecFeed == InitFeed /\ [][NextFeed]_vars

(* ------------------------------- claims --------------------------------- *)
Terminal == {Completed, Aborted, Canceled}
Executing == {InProgress, RequestCancellation}
Registered == DOMAIN tasks
ExecutingTasks == {id \in Registered : tasks[id].State \in Executing}
InGrid(x, y) == 0 <= x /\ x <= warehouseSize /\ 0 <= y /\ y <= warehouseSize

\* C1: at most one registered task is InProgress or RequestCancellation at
\* any moment, whatever the interleaving of callers, cancellers and worker.
AtMostOneExecuting == Cardinality(ExecutingTasks) <= 1

\* C1 witness: a task is being cancelled mid-run while another waits in the
\* queue and a third has already ended.
OneExecutingOthersWaiting ==
    \E a, b, c \in Registered :
        /\ tasks[a].State = RequestCancellation
        /\ tasks[b].State = Pending /\ taskIdQueue = <<b>>
        /\ tasks[c].State \in Terminal

\* C2: a task that is Completed, Aborted or Canceled never changes state
\* again, in any step of any goroutine.
TerminalIsFinal ==
    [][\A id \in Registered :
          tasks[id].State \in Terminal => tasks'[id].State = tasks[id].State]_vars

\* C3: every change of a task's state is one of the six edges of the
\* lifecycle.
LifecycleEdges ==
    { <<Pending, InProgress>>, <<Pending, Canceled>>, <<InProgress, Completed>>,
      <<InProgress, Aborted>>, <<InProgress, RequestCancellation>>,
      <<RequestCancellation, Canceled>> }
OnlyLifecycleEdges ==
    [][\A id \in Registered :
          tasks'[id].State # tasks[id].State
              => <<tasks[id].State, tasks'[id].State>> \in LifecycleEdges]_vars

RobotInGrid == InGrid(robot.X, robot.Y)

\* C5 witness: the robot stands on the far boundary, and a move beyond it
\* has been refused.
RobotAtBoundary ==
    /\ robot.X = warehouseSize
    /\ wpc = "stepError"

\* C6: a task whose destination (position when it starts plus its net
\* displacement) is inside 0..10 on both axes, and that no CancelTask was
\* accepted on, is never Aborted or Canceled, and when the worker has
\* finished it, it is Completed and the robot is at that destination.
Cancelled(id) == \E st \in {Pending, InProgress} : <<id, st>> \in cancelOk
FeasibleAtStart(id) ==
    /\ id \in DOMAIN startPos
    /\ InGrid(startPos[id].X + tasks[id].DeltaX, startPos[id].Y + tasks[id].DeltaY)
FeasibleTaskCompletes ==
    \A id \in Registered :
        (FeasibleAtStart(id) /\ ~Cancelled(id)) =>
            /\ tasks[id].State \notin {Aborted, Canceled}
            /\ (wid = id /\ wpc = "select") =>
                  /\ tasks[id].State = Completed
                  /\ robot.X = startPos[id].X + tasks[id].DeltaX
                  /\ robot.Y = startPos[id].Y + tasks[id].DeltaY

\* C7: a caller that takes the lock while the queue is full leaves the
\* registry, the count and the queue as they were.
QueueFullRejected ==
    [][\A c \in Callers :
          (cpc[c] = "lock" /\ cpc'[c] # "lock" /\ Len(taskIdQueue) = QueueCap)
              => (tasks' = tasks /\ CurTaskCount' = CurTaskCount
                  /\ taskIdQueue' = taskIdQueue)]_vars

\* C8: no caller holds the state lock while it waits for room in the work
\* queue.
LockNotHeldWhileBlocked ==
    \A c \in Callers : ~(mu = c /\ cpc[c] = "send" /\ Len(taskIdQueue) = QueueCap)

\* C9: with the worker scheduled fairly, every registered task eventually
\* reaches Completed, Aborted or Canceled.
EveryTaskEnds ==
    \A id \in 1..MaxTasks :
        (id \in Registered) ~> (id \in Registered /\ tasks[id].State \in Terminal)

\* C10: with the worker scheduled fairly, a task on which CancelTask
\* succeeded while it was InProgress eventually is Canceled.
AcceptedCancelEndsCanceled ==
    \A id \in 1..MaxTasks :
        (<<id, InProgress>> \in cancelOk) ~> (id \in Registered /\ tasks[id].State = Canceled)

\* C11: a task that CancelTask moved from Pending to Canceled is never
\* executed: it never becomes InProgress and the worker never applies one of
\* its commands to the robot position.
CancelledPendingNeverRuns ==
    \A id \in Registered :
        <<id, Pending>> \in cancelOk =>
            /\ tasks[id].State # InProgress
            /\ ~(wid = id /\ wpc = "setRobot")

\* C12: CancelTask on an unknown id, or on a task that is Completed, Aborted,
\* Canceled or RequestCancellation, returns the error (not found, or cannot
\* be cancelled with the current state) and changes no task, not the robot
\* position, not the count and not the queue.
CancelRefused(id) ==
    ~Exists(id) \/ tasks[id].State \in {Completed, Aborted, Canceled, RequestCancellation}
RefusedCancelChangesNothing ==
    [][(ret'.op = "CancelTask" /\ CancelRefused(ret'.id)) =>
          /\ ret'.err = IF Exists(ret'.id) THEN ErrCannotCancel ELSE ErrNotFound
          /\ ret'.state = IF Exists(ret'.id) THEN tasks[ret'.id].State ELSE ""
          /\ tasks' = tasks /\ robot' = robot
          /\ CurTaskCount' = CurTaskCount /\ taskIdQueue' = taskIdQueue]_vars

\* C12 witness: CancelTask has just been refused on a task whose cancellation
\* was already requested, while another task is registered.
CancelRefusedOnCancelling ==
    /\ ret.op = "CancelTask" /\ ret.err = ErrCannotCancel
    /\ ret.state = RequestCancellation
    /\ Cardinality(Registered) = 2

\* C13: once one CancelTask on an id has succeeded, every later CancelTask on
\* that id fails (cannot be cancelled) and leaves every task as it was.
SecondCancelFails ==
    [][(ret'.op = "CancelTask" /\ Cancelled(ret'.id)) =>
          (ret'.err = ErrCannotCancel /\ tasks' = tasks)]_vars

\* C14: a CancelTask that succeeds found the task InProgress and changed only
\* its state, to RequestCancellation, or found it Pending and changed only its
\* state, to Canceled, and its error, to a non-empty text; the lock is free
\* before and after, and no other task, not the robot position, the count or
\* the queue changes.
AcceptedCancelEffect ==
    [][(ret'.op = "CancelTask" /\ ret'.err = "") =>
          /\ Exists(ret'.id)
          /\ mu = NoOwner /\ mu' = NoOwner
          /\ \/ /\ tasks[ret'.id].State = InProgress
                /\ tasks' = [tasks EXCEPT ![ret'.id].State = RequestCancellation]
             \/ /\ tasks[ret'.id].State = Pending
                /\ tasks'[ret'.id].Error # ""
                /\ tasks' = [tasks EXCEPT ![ret'.id].State = Canceled,
                                          ![ret'.id].Error = tasks'[ret'.id].Error]
          /\ robot' = robot
          /\ CurTaskCount' = CurTaskCount /\ taskIdQueue' = taskIdQueue]_vars

\* C14 witness: CancelTask has just succeeded on the running task, which now
\* is RequestCancellation, while the other task is still Pending.
CancelAcceptedOnRunning ==
    /\ ret.op = "CancelTask" /\ ret.err = ""
    /\ Exists(ret.id) /\ tasks[ret.id].State = RequestCancellation
    /\ \E other \in Registered : tasks[other].State = Pending

\* C15: an EnqueueTask that returns a validation error (no command, blank
\* command, bad token, bad delay) leaves the registry, the count, the queue
\* and the robot position as they were, hands out no identifier and starts
\* and publishes no event.
FailedEnqueueChangesNothing ==
    [][(ret'.op = "EnqueueTask" /\ ret'.err # "") =>
          /\ ret'.err \in {ErrNoCommands, ErrInvalidCommand, ErrInvalidDelay}
          /\ tasks' = tasks /\ CurTaskCount' = CurTaskCount
          /\ taskIdQueue' = taskIdQueue /\ robot' = robot /\ uuids' = uuids
          /\ goPublish' = goPublish /\ eventChan' = eventChan]_vars

\* C15 witness: EnqueueTask has just refused a bad delay while a task is
\* registered and one of its events still waits to be published.
EnqueueRefusedBadDelay ==
    /\ ret.op = "EnqueueTask" /\ ret.err = ErrInvalidDelay
    /\ Registered # {} /\ goPublish # << >>

\* C16: a successful EnqueueTask registers exactly one new task, Pending with
\* an empty error, increments the count by one and numbers the task with the
\* new count; when it returns the id, the task is still so, and the id goes
\* to the tail of the queue; no other task and not the robot position
\* changes.
SuccessfulEnqueueEffect ==
    [][/\ \A c \in Callers : (cpc[c] = "lock" /\ cpc'[c] = "send") =>
             /\ ctask[c].ID \notin Registered
             /\ DOMAIN tasks' = Registered \cup {ctask[c].ID}
             /\ \A id \in Registered : tasks'[id] = tasks[id]
             /\ tasks'[ctask[c].ID].State = Pending
             /\ tasks'[ctask[c].ID].Error = ""
             /\ CurTaskCount' = CurTaskCount + 1
             /\ tasks'[ctask[c].ID].SequenceNum = CurTaskCount'
             /\ robot' = robot /\ taskIdQueue' = taskIdQueue
       /\ (ret'.op = "EnqueueTask" /\ ret'.err = "") =>
             /\ ret'.id \in Registered
             /\ tasks[ret'.id].State = Pending
             /\ tasks[ret'.id].Error = ""
             /\ tasks[ret'.id].SequenceNum = CurTaskCount
             /\ taskIdQueue' = Append(taskIdQueue, ret'.id)
             /\ tasks' = tasks /\ CurTaskCount' = CurTaskCount /\ robot' = robot]_vars

\* C16 witness: the second EnqueueTask has just returned its id, after the
\* first task moved the robot and ended.
SecondEnqueueReturned ==
    /\ ret.op = "EnqueueTask" /\ ret.err = "" /\ ret.id = 2
    /\ CurTaskCount = 2 /\ taskIdQueue = <<2>>
    /\ tasks[1].State = Completed /\ robot # [X |-> 0, Y |-> 0]

\* C17: the count equals the number of registered tasks, every task is
\* registered under its own identifier, identifiers of tasks not yet
\* registered are new, and the sequence numbers are pairwise distinct and are
\* exactly 1..count.
CountMatchesRegistry ==
    /\ CurTaskCount = Cardinality(Registered)
    /\ {tasks[id].SequenceNum : id \in Registered} = 1..CurTaskCount
    /\ \A a, b \in Registered : a # b => tasks[a].SequenceNum # tasks[b].SequenceNum
    /\ \A id \in Registered : tasks[id].ID = id
    /\ \A c \in Callers : cpc[c] = "lock" => ctask[c].ID \notin Registered
    /\ \A c, e \in Callers :
          (c # e /\ cpc[c] # "idle" /\ cpc[e] # "idle") => ctask[c].ID # ctask[e].ID

\* C17 witness: two callers raced and three tasks are registered, the one
\* created second numbered first.
ThreeRegisteredAfterRace ==
    /\ CurTaskCount = 3 /\ Cardinality(Registered) = 3
    /\ tasks[2].SequenceNum = 1

\* C18: the check made when the worker starts a task rejects it exactly when
\* the robot position plus the task's net displacement is outside 0..10 on
\* an axis; a destination coordinate of 0 or 10 is accepted.
FeasibilityCheckInclusive ==
    [][(wpc = "validate" /\ wpc' # "validate") =>
          (wpc' = "abortState" <=>
              ~InGrid(robot.X + wtask.DeltaX, robot.Y + wtask.DeltaY))]_vars

\* C19: a task the feasibility check rejected ends Aborted and none of its
\* commands runs: from the rejection until the worker takes the next task
\* the robot is where it was when the task started.
RejectedTaskLeavesRobot ==
    /\ wpc \in {"abortState", "abortError"} =>
          (wi = 1 /\ robot = startPos[wtask.ID])
    /\ \A id \in Registered :
          tasks[id].Error = ErrOutOfBoundaries =>
              /\ tasks[id].State = Aborted
              /\ wid = id => robot = startPos[id]

\* C19 witness: the worker has finished a rejected task with the robot away
\* from the origin.
RejectedAwayFromOrigin ==
    /\ wpc = "select" /\ wid \in Registered
    /\ tasks[wid].Error = ErrOutOfBoundaries
    /\ robot.Y > 0

\* C20: the events of one task enter the event channel in the order of the
\* transitions that started them: the publishEvent goroutine that sends is
\* the oldest one started for its task.
EventsOf(q, id) == SelectSeq(q, LAMBDA e : e.TaskID = id)
EventsPublishedInOrder ==
    [][Len(goPublish') < Len(goPublish) =>
          \A id \in Registered :
              \/ EventsOf(goPublish', id) = EventsOf(goPublish, id)
              \/ /\ EventsOf(goPublish, id) # << >>
                 /\ EventsOf(goPublish', id) = Tail(EventsOf(goPublish, id))]_vars

\* C21: publishing an event never blocks: a started publishEvent goroutine
\* can always run; when the channel holds EventCap events the event is
\* dropped and the channel is unchanged, otherwise the event is appended.
PublishNeverBlocks ==
    /\ [](goPublish # << >> => ENABLED Publish)
    /\ [][Len(goPublish') < Len(goPublish) =>
            IF Len(eventChan) = EventCap
            THEN eventChan' = eventChan
            ELSE \E k \in 1..Len(goPublish) : eventChan' = Append(eventChan, goPublish[k])]_vars

\* C21 witness: the channel is full, every goroutine has run, and the events
\* of the task that completed last were dropped.
EventDroppedOnFullChannel ==
    /\ Len(eventChan) = EventCap /\ goPublish = << >>
    /\ \E id \in Registered :
          /\ tasks[id].State = Completed
          /\ \A j \in 1..Len(eventChan) : eventChan[j].State # Completed

\* C23: every state transition of a task starts the publication of an event
\* with the task's identifier, its new state and the error text the registry
\* holds for it at that transition; the creation of a task in Pending starts
\* the publication of its Pending event when EnqueueTask returns.
TransitionPublishesEvent ==
    [][/\ \A id \in Registered :
            tasks'[id].State # tasks[id].State =>
                goPublish' = Append(goPublish,
                                    Event(id, tasks'[id].State, tasks'[id].Error))
       /\ (ret'.op = "EnqueueTask" /\ ret'.err = "") =>
            goPublish' = Append(goPublish,
                                Event(ret'.id, Pending, tasks'[ret'.id].Error))]_vars

\* C23 counterexample: no cancellation request for a task that was not
\* cancelled before is announced with an error text other than the one
\* recorded for the task.
CancelRequestEventCarriesError ==
    [][\A id \in Registered :
          (/\ tasks[id].State = InProgress
           /\ tasks'[id].State = RequestCancellation
           /\ <<id, Pending>> \notin cancelOk) =>
              goPublish' = Append(goPublish,
                                  Event(id, RequestCancellation, tasks'[id].Error))]_vars

\* C24: what CurrentState returned is a consistent snapshot: position,
\* registry and count are those of the instant the lock was taken (the count
\* is the number of registered tasks), and the returned registry stays as it
\* was at that instant whatever EnqueueTask, CancelTask and the worker do
\* afterwards.
SnapshotConsistentAndFixed ==
    snap.taken =>
        /\ ReturnedState.CurTaskCount = Cardinality(DOMAIN snap.TasksAtLock)
        /\ ReturnedState.Tasks = snap.TasksAtLock

\* C24 counterexample: the registry in the returned value never differs from
\* the registry at the instant of the call.
ReturnedRegistryFixed == snap.taken => ReturnedState.Tasks = snap.TasksAtLock

\* the maximal runs of characters of raw that are not in seps
RECURSIVE RunsAcc(_, _, _, _)
RunsAcc(raw, seps, cur, acc) ==
    IF raw = << >> THEN (IF cur = << >> THEN acc ELSE Append(acc, cur))
    ELSE IF Head(raw) \in seps
         THEN RunsAcc(Tail(raw), seps, << >>, IF cur = << >> THEN acc ELSE Append(acc, cur))
         ELSE RunsAcc(Tail(raw), seps, Append(cur, Head(raw)), acc)
Runs(raw, seps) == RunsAcc(raw, seps, << >>, << >>)
\* the tokens of a command string when spaces separate: the pieces between
\* spaces, the empty and the blank ones discarded
SpaceTokens(raw) ==
    SelectSeq(Runs(raw, {" "}), LAMBDA t : \E i \in 1..Len(t) : t[i] \notin {" ", "\t", "\n"})
\* the tokens of a command string when any whitespace separates
Tokens(raw) == Runs(raw, {" ", "\t", "\n"})
ValidToken(tok) == tok \in {<<"N">>, <<"E">>, <<"S">>, <<"W">>}
AllValid(toks) == \A i \in 1..Len(toks) : ValidToken(toks[i])
CommandOf(tok) ==
    CASE tok = <<"N">> -> North [] tok = <<"E">> -> East
      [] tok = <<"S">> -> South [] tok = <<"W">> -> West
\* the unit vectors N:+Y, S:-Y, E:+X, W:-X, summed over a command list
RECURSIVE SumX(_)
SumX(cmds) ==
    IF cmds = << >> THEN 0
    ELSE (CASE Head(cmds) = East -> 1 [] Head(cmds) = West -> -1 [] OTHER -> 0)
         + SumX(Tail(cmds))
RECURSIVE SumY(_)
SumY(cmds) ==
    IF cmds = << >> THEN 0
    ELSE (CASE Head(cmds) = North -> 1 [] Head(cmds) = South -> -1 [] OTHER -> 0)
         + SumY(Tail(cmds))
\* the tokens again, separated by single spaces
RECURSIVE JoinSpaces(_)
JoinSpaces(toks) ==
    IF toks = << >> THEN << >>
    ELSE IF Len(toks) = 1 THEN Head(toks)
    ELSE Head(toks) \o <<" ">> \o JoinSpaces(Tail(toks))
Parsed == parseOut # NoOutput

AnyWhitespaceSeparates ==
    (Parsed /\ Tokens(parseIn) # << >> /\ AllValid(Tokens(parseIn))) =>
        parseOut = NewTask(JoinSpaces(Tokens(parseIn)), "", 1)

\* the number of commands of the worker's current task applied to the robot
Applied == IF wpc \in {"lookup", "check", "start", "validate"} THEN 0 ELSE wi - 1

\* C28: once CancelTask has moved a task to RequestCancellation, the worker
\* applies at most one more of its commands to the robot, and a command that
\* has passed the cancellation check runs to its end: from the sleep the
\* worker goes on to execute it, and from there to the write of the robot
\* state or to the step failure.
CancellationBounded ==
    /\ \A id \in 1..GridTasks, k \in 0..warehouseSize :
          []((/\ wid = id /\ id \in Registered
              /\ tasks[id].State = RequestCancellation
              /\ Applied = k)
             => [](wid = id => Applied <= k + 1))
    /\ [][/\ wpc = "sleep" => wpc' \in {"sleep", "execute"}
          /\ wpc = "execute" => wpc' \in {"execute", "setRobot", "stepError"}
          /\ (wpc = "setRobot" /\ wpc' # wpc) => (robot' = wrobot /\ wpc' = "loop")]_vars

\* C28 witness: cancellation has been requested while a command that is not
\* the last one is past its check and about to move the robot.
CancelRequestedDuringCommand ==
    /\ wid \in Registered
    /\ tasks[wid].State = RequestCancellation
    /\ wpc = "setRobot"
    /\ wi < Len(wtask.Commands)

\* C29: when the worker has moved a task to Canceled or Aborted, the robot
\* stands where the task started plus the unit vectors of the first k
\* commands of the task, k being the number of commands the worker applied
\* (0 <= k <= length); no later command has been applied.
StoppedAtPrefix ==
    \A id \in Registered :
        (wid = id /\ id \in DOMAIN startPos /\ tasks[id].State \in {Canceled, Aborted}) =>
            /\ Applied \in 0..Len(tasks[id].Commands)
            /\ robot.X = startPos[id].X + SumX(SubSeq(tasks[id].Commands, 1, Applied))
            /\ robot.Y = startPos[id].Y + SumY(SubSeq(tasks[id].Commands, 1, Applied))

\* C29 witness: a task of four commands was Aborted at its second command,
\* against the far boundary, with only the first one applied.
AbortedAfterOneCommand ==
    /\ wid \in Registered /\ wid \in DOMAIN startPos
    /\ tasks[wid].State = Aborted
    /\ Len(tasks[wid].Commands) = 4 /\ Applied = 1
    /\ robot.X = warehouseSize /\ startPos[wid].X = warehouseSize - 1

\* C30: once a task has passed the feasibility check, none of its commands
\* fails the per-step boundary check.
StepFailureUnreachable == wpc \notin {"stepError", "stepAbort"}

\* C31: ExecuteRobotCommand either moves the robot exactly one unit along
\* the one axis of the command (N: Y+1, S: Y-1, E: X+1, W: X-1) and leaves
\* the other coordinate as it was, or, when the step would leave 0..10 (N at
\* Y = 10, S at Y = 0, E at X = 10, W at X = 0), returns an error and leaves
\* the position as it was.
Leaves(cmd, from) ==
    \/ cmd = North /\ from.Y = 10
    \/ cmd = South /\ from.Y = 0
    \/ cmd = East /\ from.X = 10
    \/ cmd = West /\ from.X = 0
OneStep(cmd, from) ==
    [X |-> from.X + (CASE cmd = East -> 1 [] cmd = West -> -1 [] OTHER -> 0),
     Y |-> from.Y + (CASE cmd = North -> 1 [] cmd = South -> -1 [] OTHER -> 0)]
MovesOneUnitOrFails ==
    moved # NoMove =>
        IF Leaves(moved.cmd, moved.from)
        THEN moved.err # "" /\ robot = moved.from
        ELSE moved.err = "" /\ robot = OneStep(moved.cmd, moved.from)

\* C31 witness: a step north from the northern boundary was refused.
NorthRefusedAtBoundary ==
    /\ moved # NoMove /\ moved.cmd = North /\ moved.err # ""
    /\ robot.Y = warehouseSize /\ robot.X = 5

\* C32: the robot position changes only when the worker applies the next
\* command, in the order of the list, of the one task it is executing (the
\* identifier it received last); no step of EnqueueTask, CancelTask or
\* CurrentState changes it; and the worker receives every identifier once,
\* so all position changes of one task precede those of the next.
OnlyWorkerMovesRobot ==
    /\ [](\A i, j \in 1..Len(startOrder) : i # j => startOrder[i] # startOrder[j])
    /\ [][robot' # robot =>
            /\ wpc = "setRobot" /\ wpc' = "loop"
            /\ startOrder # << >> /\ wid = startOrder[Len(startOrder)]
            /\ wid \in Registered /\ wid' = wid
            /\ tasks[wid].State \in {InProgress, RequestCancellation}
            /\ Applied < Len(tasks[wid].Commands)
            /\ robot' = OneStep(tasks[wid].Commands[Applied + 1], robot)
            /\ Applied' = Applied + 1
            /\ UNCHANGED <<tasks, callerVars, snap>>]_vars

\* C32 witness: the second task the worker received has moved the robot
\* after the first one did, and a CurrentState call saw the robot in between.
SecondTaskMovedRobot ==
    /\ Len(startOrder) = 2 /\ wid = startOrder[2] /\ Applied >= 1
    /\ startOrder[1] \in DOMAIN startPos /\ wid \in DOMAIN startPos
    /\ startPos[wid] # startPos[startOrder[1]]
    /\ robot # startPos[wid]
    /\ snap.taken /\ snap.RobotState = startPos[wid]

\* C33: when the worker has received an identifier whose task is missing or
\* is not Pending, its lookup and its test of the state change no task, no
\* error text and not the robot position; ExecuteTask returns an error for
\* that identifier; and the worker is back at its select, able to receive
\* the next identifier.
WorkerSkipsUnrunnable ==
    /\ [][(wpc = "lookup" /\ wpc' # wpc /\ (wid \notin Registered \/ tasks[wid].State # Pending)) =>
            /\ tasks' = tasks /\ robot' = robot
            /\ IF wid \in Registered
               THEN wpc' = "check" /\ wtask'.State # Pending
               ELSE /\ wpc' = "select"
                    /\ ret' = [op |-> "ExecuteTask", id |-> wid, err |-> ErrNotFound, state |-> ""]]_vars
    /\ [][(wpc = "check" /\ wpc' # wpc /\ wtask.State # Pending) =>
            /\ tasks' = tasks /\ robot' = robot
            /\ wpc' = "select"
            /\ ret' = [op |-> "ExecuteTask", id |-> wid, err |-> ErrNotPending, state |-> ""]]_vars
    /\ [](wpc = "select" /\ taskIdQueue # << >> => ENABLED Dequeue)

\* C33 witness: the worker has returned from a task that was cancelled
\* while Pending, and the next identifier is waiting in the queue.
CancelledTaskSkipped ==
    /\ wpc = "select" /\ wid \in Registered
    /\ ret.op = "ExecuteTask" /\ ret.err = ErrNotPending
    /\ tasks[wid].State = Canceled /\ tasks[wid].Error = ErrPendingCancelled
    /\ taskIdQueue # << >>

\* C34: in every reachable state, a registered task that is Aborted or
\* Canceled has a non-empty error text.
EndedInErrorHasText ==
    \A id \in Registered :
        tasks[id].State \in {Aborted, Canceled} => tasks[id].Error # ""

\* C35: once a task is registered, its identifier, command list, delay, net
\* displacement and sequence number never change: a step changes at most the
\* state and the error text of a registered task.
RegisteredTaskImmutable ==
    [][\A id \in Registered :
          /\ id \in DOMAIN tasks'
          /\ tasks'[id] = [tasks[id] EXCEPT !.State = tasks'[id].State,
                                            !.Error = tasks'[id].Error]]_vars

\* C35 witness: the second task registered was started, cancelled on
\* request and ended Canceled, with its commands and its number as submitted.
SecondTaskCanceledIntact ==
    \E id \in Registered :
        /\ tasks[id].State = Canceled /\ tasks[id].Error = ErrCancelRequested
        /\ tasks[id].SequenceNum = 2 /\ tasks[id].ID = id
        /\ tasks[id].Commands = <<West, East>> /\ tasks[id].DeltaX = 0

\* C36: the registry only grows: a registered task is never removed and
\* never replaced by another task; the stored state of every registered task
\* is one of Pending, InProgress, RequestCancellation, Canceled, Aborted,
\* Completed, never Invalid; and GetTaskState returns Invalid with an error
\* exactly when the identifier is not registered.
RegistryGrowsStatesValid ==
    /\ [][\A id \in Registered : id \in DOMAIN tasks' /\ tasks'[id].ID = tasks[id].ID]_vars
    /\ [](\A id \in Registered :
            tasks[id].State \in {Pending, InProgress, RequestCancellation,
                                 Canceled, Aborted, Completed})
    /\ [](ret.op = "GetTaskState" =>
            IF ret.id \in Registered
            THEN ret.err = "" /\ ret.state = tasks[ret.id].State /\ ret.state # Invalid
            ELSE ret.err # "" /\ ret.state = Invalid)

\* C36 witness: with two tasks registered, one of them ended, GetTaskState
\* was asked for an identifier that is not registered.
UnknownIdAsked ==
    /\ Cardinality(Registered) = 2
    /\ \E id \in Registered : tasks[id].State \in Terminal
    /\ ret.op = "GetTaskState" /\ ret.id \notin Registered /\ ret.state = Invalid

\* C37: after the context is cancelled the worker stops only between tasks:
\* it leaves its loop only from the select and only once the context is
\* cancelled; a task it is executing when the context is cancelled is run on
\* to a terminal state; and once it has stopped it receives no further
\* identifier and moves the robot no more, so that a task waiting in the
\* queue stays Pending unless a CancelTask call cancels it.
InsideTask == wpc \notin {"select", "stopped", "lookup", "check", "start"}
InProgressOnceByWorker ==
    [][\A id \in Registered :
          (tasks'[id].State # tasks[id].State
           /\ tasks'[id].State \in {InProgress, Completed, Aborted}) =>
              /\ wpc' # wpc /\ wid = id /\ wtask.ID = id
              /\ UNCHANGED <<cpc, cancelOk>>
              /\ tasks'[id].State = InProgress =>
                    /\ wpc = "start"
                    /\ id \notin DOMAIN startPos
                    /\ startOrder[Len(startOrder)] = id
                    /\ \A j \in 1..(Len(startOrder) - 1) : startOrder[j] # id]_vars

\* C39 witness: the worker has completed one task and aborted the next.
OneCompletedNextAborted ==
    /\ Len(startOrder) = 2 /\ wid = startOrder[2]
    /\ tasks[startOrder[1]].State = Completed
    /\ tasks[wid].State = Aborted

\* C40: a registered task that is Completed, Pending or InProgress has an
\* empty error text: an error message is attached only to tasks that end
\* Aborted or Canceled.
NoErrorUnlessEndedInError ==
    \A id \in Registered :
        tasks[id].State \in {Completed, Pending, InProgress} => tasks[id].Error = ""

====
